---- MODULE Spec2Model ----
(***************************************************************************)
(* the-listener: addListener(target, eventsAndHandlers, pointerOptions).   *)
(* The model follows the built library (lib/index.js, kept here as         *)
(* src/unnamed/part_003) and src/src/eventMaps.js: one target, its list of *)
(* native listeners, the TouchState records the listeners close over, and  *)
(* the host firing native events at the target at clock readings `now'.    *)
(***************************************************************************)
EXTENDS Integers, Sequences, FiniteSets, TLC

(* ---------------------------------------------------------------------- *)
(* JavaScript values                                                       *)
(* ---------------------------------------------------------------------- *)

\* `undefined' as the result of a property lookup; as a property key it is
\* the string "undefined", which is what obj[undefined] reads.
Undefined == "undefined"

\* `undefined' in the start / end fields of a TouchState (a time otherwise).
NoTime == -1

\* Date.now() - t < w ; with t undefined the difference is NaN and every
\* comparison with NaN is false.
ElapsedLess(t, from, w) == from # NoTime /\ t - from < w

\* Date.now() - t > w ; false when t is undefined (NaN).
ElapsedMore(t, from, w) == from # NoTime /\ t - from > w

\* the click-on-touch cutoff and the quiet window after a touchend (ms)
ClickWindow == 500
GhostWindow == 600

(* ---------------------------------------------------------------------- *)
(* Bounds                                                                  *)
(* ---------------------------------------------------------------------- *)

\* last clock reading the host delivers an event at
MaxTime == 1102
\* touch points that can be down at once
MaxTouches == 2
\* addListener calls made on the target
MaxCalls == 2

\* clock readings around the two windows: 0, 1, 499..501, 1100..MaxTime
Instants ==
  {0, 1} \cup ((ClickWindow - 1) .. (ClickWindow + 1))
         \cup ((ClickWindow + GhostWindow) .. MaxTime)

(* ---------------------------------------------------------------------- *)
(* eventMaps.js                                                            *)
(* ---------------------------------------------------------------------- *)

mouseEventsMap ==
  [e \in {"click", "dblclick", "mousedown", "mouseup", "mouseenter",
          "mouseleave", "mouseover", "mouseout", "mousemove"} |->
     CASE e = "click"      -> "click"
       [] e = "dblclick"   -> "dblclick"
       [] e = "mousedown"  -> "pointerdown"
       [] e = "mouseup"    -> "pointerup"
       [] e = "mouseenter" -> "pointerenter"
       [] e = "mouseleave" -> "pointerleave"
       [] e = "mouseover"  -> "pointerover"
       [] e = "mouseout"   -> "pointerout"
       [] e = "mousemove"  -> "pointermove"]

touchEventsMap ==
  [e \in {"touchstart", "touchend", "touchmove", "touchcancel"} |->
     CASE e = "touchstart"  -> "pointerdown"
       [] e = "touchend"    -> "pointerup"
       [] e = "touchmove"   -> "pointermove"
       [] e = "touchcancel" -> "pointercancel"]

\* map[event], undefined when the map has no such key
Lookup(map, event) == IF event \in DOMAIN map THEN map[event] ELSE Undefined

IsMouseEvent(event) == Lookup(mouseEventsMap, event) # Undefined
IsTouchEvent(event) == Lookup(touchEventsMap, event) # Undefined

(* ---------------------------------------------------------------------- *)
(* State                                                                   *)
(* ---------------------------------------------------------------------- *)

VARIABLES
  detectIt,     \* the capability profile (detect-it), read-only
  hasPassive,   \* detectPassiveSupport, read-only
  listeners,    \* the target's native listeners, in registration order
  touchStates,  \* the TouchState objects the listeners close over
  call,         \* the arguments and chosen setter of the addListener call
  now,          \* Date.now() at the latest delivery
  touches,      \* touch points currently down (host)
  last,         \* the native event delivered latest
  fired,        \* listeners (indices) that called their handler for it
  seen,         \* observer: when the host last fired touchstart, and
                \*           touchend / touchcancel, since the call
  tap           \* observer: handler calls of the current tap gesture

vars == <<detectIt, hasPassive, listeners, touchStates, call, now, touches,
          last, fired, seen, tap>>

(* ---------------------------------------------------------------------- *)
(* detect-it profile                                                       *)
(* ---------------------------------------------------------------------- *)

DeviceTypes == {"mouseOnly", "touchOnly", "hybrid", "other"}

Profiles ==
  [deviceType : DeviceTypes, hasTouchEventsApi : BOOLEAN,
   hasPointerEventsApi : BOOLEAN, hasTouch : BOOLEAN, msPrefix : BOOLEAN]

\* detectIt.pointerEventsPrefix: the W3C name, or the MS-prefixed name
pointerEventsPrefix(d, name) ==
  IF ~d.msPrefix THEN name
  ELSE CASE name = "pointerdown"   -> "MSPointerDown"
         [] name = "pointerup"     -> "MSPointerUp"
         [] name = "pointermove"   -> "MSPointerMove"
         [] name = "pointercancel" -> "MSPointerCancel"
         [] name = "pointerenter"  -> "MSPointerEnter"
         [] name = "pointerleave"  -> "MSPointerLeave"
         [] name = "pointerover"   -> "MSPointerOver"
         [] name = "pointerout"    -> "MSPointerOut"
         [] OTHER                  -> name

(* ---------------------------------------------------------------------- *)
(* getListenerType                                                         *)
(* ---------------------------------------------------------------------- *)

getListenerTypeSwapped(d) ==
  IF d.deviceType = "mouseOnly" THEN "setMouseListener"
  ELSE IF d.hasTouch /\ d.hasPointerEventsApi THEN "setPointerListener"
  ELSE IF d.deviceType = "touchOnly" /\ d.hasTouchEventsApi THEN "setTouchListener"
  ELSE IF d.deviceType = "hybrid" /\ d.hasTouchEventsApi THEN "setHybridListener"
  ELSE "cantSetListeners"

getListenerType(d) ==
  IF d.deviceType = "mouseOnly" THEN "setMouseListener"
  ELSE IF d.deviceType = "touchOnly" /\ d.hasTouchEventsApi THEN "setTouchListener"
  ELSE IF d.deviceType = "hybrid" /\ d.hasTouchEventsApi THEN "setHybridListener"
  ELSE IF d.hasTouch /\ d.hasPointerEventsApi THEN "setPointerListener"
  ELSE "cantSetListeners"

(* ---------------------------------------------------------------------- *)
(* getListenerOptions, parseKey                                            *)
(* ---------------------------------------------------------------------- *)

\* the options argument of addEventListener: a bare boolean (object = FALSE,
\* capture = the boolean) or the object {capture, passive}
BoolOptions(capture) == [object |-> FALSE, capture |-> capture, passive |-> FALSE]
ObjOptions(capture, passive) == [object |-> TRUE, capture |-> capture, passive |-> passive]

getListenerOptionsUnsupported(passive, capture, hp) ==
  IF ~passive THEN BoolOptions(capture)
  ELSE ObjOptions(capture, passive)

getListenerOptions(passive, capture, hp) ==
  IF ~passive \/ ~hp THEN BoolOptions(capture)
  ELSE ObjOptions(capture, passive)

\* A key is a string, written as the sequence of its words and single
\* spaces " ".  key.split(' '): the pieces between the spaces, the empty
\* string "" where two spaces are adjacent or the key starts / ends with one.
RECURSIVE SplitFrom(_, _, _)
SplitFrom(key, i, cur) ==
  IF i > Len(key) THEN <<cur>>
  ELSE IF key[i] = " " THEN <<cur>> \o SplitFrom(key, i + 1, "")
  ELSE SplitFrom(key, i + 1, key[i])

Split(key) == SplitFrom(key, 1, "")

optionsList == {"passive", "capture", "setWithMouse", "setWithTouch", "setWithHybrid"}

Contains(seq, x) == \E i \in 1..Len(seq) : seq[i] = x

parseKeyPairUnqualified(key, hp) ==
  LET eventsAndOptions == Split(key) IN
  [events |-> SelectSeq(eventsAndOptions, LAMBDA v : v \notin optionsList),
   listenerOptions |-> getListenerOptions(Contains(eventsAndOptions, "passive"),
                                          Contains(eventsAndOptions, "capture"), hp),
   setWith |-> IF Contains(eventsAndOptions, "setWithHybrid") THEN "setWithHybrid"
               ELSE IF /\ Contains(eventsAndOptions, "setWithMouse")
                       /\ Contains(eventsAndOptions, "setWithTouch") THEN Undefined
               ELSE IF Contains(eventsAndOptions, "setWithMouse") THEN "setWithMouse"
               ELSE IF Contains(eventsAndOptions, "setWithTouch") THEN "setWithTouch"
               ELSE Undefined]

parseKeyTouchFirst(key, hp) ==
  LET eventsAndOptions == Split(key) IN
  [events |-> SelectSeq(eventsAndOptions, LAMBDA v : v \notin optionsList),
   listenerOptions |-> getListenerOptions(Contains(eventsAndOptions, "passive"),
                                          Contains(eventsAndOptions, "capture"), hp),
   setWith |-> IF Contains(eventsAndOptions, "setWithTouch") THEN "setWithTouch"
               ELSE IF Contains(eventsAndOptions, "setWithMouse") THEN "setWithMouse"
               ELSE IF Contains(eventsAndOptions, "setWithHybrid") THEN "setWithHybrid"
               ELSE Undefined]

parseKey(key, hp) ==
  LET eventsAndOptions == Split(key) IN
  [events |-> SelectSeq(eventsAndOptions, LAMBDA v : v \notin optionsList),
   listenerOptions |-> getListenerOptions(Contains(eventsAndOptions, "passive"),
                                          Contains(eventsAndOptions, "capture"), hp),
   setWith |-> IF Contains(eventsAndOptions, "setWithHybrid") THEN "setWithHybrid"
               ELSE IF Contains(eventsAndOptions, "setWithMouse") THEN "setWithMouse"
               ELSE IF Contains(eventsAndOptions, "setWithTouch") THEN "setWithTouch"
               ELSE Undefined]

(* ---------------------------------------------------------------------- *)
(* Native listeners                                                        *)
(* ---------------------------------------------------------------------- *)

\* One target.addEventListener(type, callback, opts).  kind names the
\* callback: "handler"   handler
\*           "tap"       e => now - touch.start < 500 && handler(e)
\*           "quiet"     e => !touch.active && now - touch.end > 600 && handler(e)
\*           "ptrMouse"  e => pointerType[e.pointerType] === 'mouse' && handler(e)
\*           "ptrTouch"  e => pointerType[e.pointerType] === 'touch' && handler(e)
\*           "trackStart" / "trackEnd"  the TouchState's own callbacks
\* touch is the index of the TouchState the callback closes over (0: none);
\* key and pos say which key of the mapping, and which of its events, the
\* listener was set for.
Listener(type, kind, a, touch) ==
  [type |-> type, kind |-> kind, handler |-> a.handler,
   opts |-> a.listenerOptions, touch |-> touch, key |-> a.key, pos |-> a.pos]

\* new TouchState(target): the record and its three listeners
TouchState(st, hp, a) ==
  LET id == Len(st.ts) + 1
      options == IF hp THEN ObjOptions(TRUE, TRUE) ELSE BoolOptions(TRUE)
      t == [a EXCEPT !.handler = 0, !.listenerOptions = options]
  IN [ls |-> st.ls \o <<Listener("touchstart", "trackStart", t, id),
                        Listener("touchend", "trackEnd", t, id),
                        Listener("touchcancel", "trackEnd", t, id)>>,
      ts |-> Append(st.ts, [start |-> NoTime, end |-> NoTime, active |-> FALSE])]

AddEventListenerOnce(st, l) ==
  IF \E i \in 1..Len(st.ls) : st.ls[i].type = l.type /\ st.ls[i].kind = l.kind
    THEN st
    ELSE [st EXCEPT !.ls = Append(@, l)]

\* target.addEventListener(type, callback, opts); every call passes a new
\* function, so the host never merges two of them
AddEventListener(st, l) == [st EXCEPT !.ls = Append(@, l)]

(* ---------------------------------------------------------------------- *)
(* setTouchListener                                                        *)
(* ---------------------------------------------------------------------- *)

setTouchListenerSameName(a, d, hp, st) ==
  IF a.setWith # Undefined /\ a.setWith # "setWithTouch" THEN st
  ELSE IF IsTouchEvent(a.event)
    THEN AddEventListener(st, Listener(a.event, "handler", a, 0))
  ELSE IF a.event = "click"
    THEN LET s1 == IF a.touchState # 0 THEN st ELSE TouchState(st, hp, a)
             touch == IF a.touchState # 0 THEN a.touchState ELSE Len(s1.ts)
             s2 == AddEventListener(s1, Listener("touchend", "tap", a, touch))
         IN IF d.deviceType = "touchOnly"
              THEN AddEventListener(s2, Listener("touchend", "quiet", a, touch))
              ELSE s2
  ELSE IF ~IsMouseEvent(a.event) \/ a.setWith = "setWithTouch"
    THEN AddEventListener(st, Listener(a.event, "handler", a, 0))
  ELSE st

setTouchListenerNoOverride(a, d, hp, st) ==
  IF a.setWith # Undefined /\ a.setWith # "setWithTouch" THEN st
  ELSE IF IsTouchEvent(a.event)
    THEN AddEventListener(st, Listener(a.event, "handler", a, 0))
  ELSE IF a.event = "click"
    THEN LET s1 == IF a.touchState # 0 THEN st ELSE TouchState(st, hp, a)
             touch == IF a.touchState # 0 THEN a.touchState ELSE Len(s1.ts)
             s2 == AddEventListener(s1, Listener("touchend", "tap", a, touch))
         IN IF d.deviceType = "touchOnly"
              THEN AddEventListener(s2, Listener("click", "quiet", a, touch))
              ELSE s2
  ELSE IF ~IsMouseEvent(a.event)
    THEN AddEventListener(st, Listener(a.event, "handler", a, 0))
  ELSE st

setTouchListener(a, d, hp, st) ==
  IF a.setWith # Undefined /\ a.setWith # "setWithTouch" THEN st
  ELSE IF IsTouchEvent(a.event)
    THEN AddEventListener(st, Listener(a.event, "handler", a, 0))
  ELSE IF a.event = "click"
    THEN LET s1 == IF a.touchState # 0 THEN st ELSE TouchState(st, hp, a)
             touch == IF a.touchState # 0 THEN a.touchState ELSE Len(s1.ts)
             s2 == AddEventListener(s1, Listener("touchend", "tap", a, touch))
         IN IF d.deviceType = "touchOnly"
              THEN AddEventListener(s2, Listener("click", "quiet", a, touch))
              ELSE s2
  ELSE IF ~IsMouseEvent(a.event) \/ a.setWith = "setWithTouch"
    THEN AddEventListener(st, Listener(a.event, "handler", a, 0))
  ELSE st

(* ---------------------------------------------------------------------- *)
(* setMouseListener                                                        *)
(* ---------------------------------------------------------------------- *)

setMouseListenerAny(a, d, hp, st) ==
  IF a.setWith # Undefined /\ a.setWith # "setWithMouse" THEN st
  ELSE AddEventListener(st, Listener(a.event, "handler", a, 0))

setMouseListenerKnownOnly(a, d, hp, st) ==
  IF a.setWith # Undefined /\ a.setWith # "setWithMouse" THEN st
  ELSE IF IsMouseEvent(a.event)
    THEN AddEventListener(st, Listener(a.event, "handler", a, 0))
  ELSE st

setMouseListener(a, d, hp, st) ==
  IF a.setWith # Undefined /\ a.setWith # "setWithMouse" THEN st
  ELSE IF IsMouseEvent(a.event) \/ ~IsTouchEvent(a.event) \/ a.setWith = "setWithMouse"
    THEN AddEventListener(st, Listener(a.event, "handler", a, 0))
  ELSE st

(* ---------------------------------------------------------------------- *)
(* setHybridListener                                                       *)
(* ---------------------------------------------------------------------- *)

setHybridListenerOwnTracker(a, d, hp, st) ==
  LET s1 == setTouchListener([a EXCEPT !.setWith = Undefined, !.touchState = 0],
                             d, hp, st)
  IN IF IsMouseEvent(a.event)
       THEN AddEventListener(s1, Listener(a.event, "quiet", a, a.touchState))
       ELSE s1

\* the inner call passes no setWith
setHybridListener(a, d, hp, st) ==
  LET s1 == setTouchListener([a EXCEPT !.setWith = Undefined], d, hp, st)
  IN IF IsMouseEvent(a.event)
       THEN AddEventListener(s1, Listener(a.event, "quiet", a, a.touchState))
       ELSE s1

(* ---------------------------------------------------------------------- *)
(* setPointerListener                                                      *)
(* ---------------------------------------------------------------------- *)

\* pointerOptions[name] === false ; name may be undefined, read as the key
\* "undefined"
IsFalse(pointerOptions, name) ==
  name \in DOMAIN pointerOptions /\ pointerOptions[name] = FALSE

SuppressedTouchOnly(pointerOptions, event) ==
  IsFalse(pointerOptions, Lookup(touchEventsMap, event))

Suppressed(pointerOptions, event) ==
  \/ IsFalse(pointerOptions, Lookup(touchEventsMap, event))
  \/ IsFalse(pointerOptions, Lookup(mouseEventsMap, event))

setPointerListenerNoClick(a, d, hp, st) ==
  LET ptrTouchEvent == Lookup(touchEventsMap, a.event)
      ptrMouseEvent == Lookup(mouseEventsMap, a.event)
  IN IF Suppressed(a.pointerOptions, a.event) THEN st
     ELSE IF ptrMouseEvent # Undefined
       THEN AddEventListener(st,
              Listener(pointerEventsPrefix(d, ptrMouseEvent), "ptrMouse", a, 0))
     ELSE IF ptrTouchEvent # Undefined
       THEN AddEventListener(st,
              Listener(pointerEventsPrefix(d, ptrTouchEvent), "ptrTouch", a, 0))
     ELSE AddEventListener(st,
              Listener(pointerEventsPrefix(d, a.event), "handler", a, 0))

setPointerListener(a, d, hp, st) ==
  LET ptrTouchEvent == Lookup(touchEventsMap, a.event)
      ptrMouseEvent == Lookup(mouseEventsMap, a.event)
  IN IF Suppressed(a.pointerOptions, a.event) THEN st
     ELSE IF ptrMouseEvent = "click" \/ ptrMouseEvent = "dblclick"
       THEN AddEventListener(st, Listener(ptrMouseEvent, "handler", a, 0))
     ELSE IF ptrMouseEvent # Undefined
       THEN AddEventListener(st,
              Listener(pointerEventsPrefix(d, ptrMouseEvent), "ptrMouse", a, 0))
     ELSE IF ptrTouchEvent # Undefined
       THEN AddEventListener(st,
              Listener(pointerEventsPrefix(d, ptrTouchEvent), "ptrTouch", a, 0))
     ELSE AddEventListener(st,
              Listener(pointerEventsPrefix(d, a.event), "handler", a, 0))

cantSetListenersMouse(a, d, hp, st) == setMouseListener(a, d, hp, st)

cantSetListeners(a, d, hp, st) == st

(* ---------------------------------------------------------------------- *)
(* addListener                                                             *)
(* ---------------------------------------------------------------------- *)

SetListener(setter, a, d, hp, st) ==
  CASE setter = "setMouseListener"   -> setMouseListener(a, d, hp, st)
    [] setter = "setTouchListener"   -> setTouchListener(a, d, hp, st)
    [] setter = "setHybridListener"  -> setHybridListener(a, d, hp, st)
    [] setter = "setPointerListener" -> setPointerListener(a, d, hp, st)
    [] OTHER                         -> cantSetListeners(a, d, hp, st)

\* events.forEach(event => setListener({...})) for the key at index k
RECURSIVE ForEachEvent(_, _, _, _, _, _, _, _, _)
ForEachEvent(setter, eh, k, parsed, i, touchState, po, env, st) ==
  IF i > Len(parsed.events) THEN st
  ELSE ForEachEvent(setter, eh, k, parsed, i + 1, touchState, po, env,
         SetListener(setter,
           [event |-> parsed.events[i], handler |-> eh[k].handler,
            listenerOptions |-> parsed.listenerOptions,
            touchState |-> touchState, pointerOptions |-> po,
            setWith |-> parsed.setWith, key |-> k, pos |-> i],
           env.d, env.hp, st))

\* Object.keys(eventsAndHandlers).forEach(key => ...)
RECURSIVE ForEachKey(_, _, _, _, _, _, _)
ForEachKey(setter, eh, k, touchState, po, env, st) ==
  IF k > Len(eh) THEN st
  ELSE ForEachKey(setter, eh, k + 1, touchState, po, env,
         ForEachEvent(setter, eh, k, parseKey(eh[k].key, env.hp), 1,
                      touchState, po, env, st))

addListenerSharedTouch(eh, po, d, hp, st) ==
  LET setter == getListenerType(d)
      blank == [event |-> "", handler |-> 0, listenerOptions |-> BoolOptions(TRUE),
                touchState |-> 0, pointerOptions |-> po, setWith |-> Undefined,
                key |-> 0, pos |-> 0]
      tracked == setter \in {"setHybridListener", "setTouchListener"}
      s1 == IF tracked THEN TouchState(st, hp, blank) ELSE st
      touchState == IF tracked THEN Len(s1.ts) ELSE 0
  IN ForEachKey(setter, eh, 1, touchState, po, [d |-> d, hp |-> hp], s1)

\* the listeners and TouchStates of the target after
\* addListener(target, eventsAndHandlers, pointerOptions)
addListener(eh, po, d, hp, st) ==
  LET setter == getListenerType(d)
      blank == [event |-> "", handler |-> 0, listenerOptions |-> BoolOptions(TRUE),
                touchState |-> 0, pointerOptions |-> po, setWith |-> Undefined,
                key |-> 0, pos |-> 0]
      s1 == IF setter = "setHybridListener" THEN TouchState(st, hp, blank) ELSE st
      touchState == IF setter = "setHybridListener" THEN Len(s1.ts) ELSE 0
  IN ForEachKey(setter, eh, 1, touchState, po, [d |-> d, hp |-> hp], s1)

(* ---------------------------------------------------------------------- *)
(* Listener callbacks and host dispatch                                    *)
(* ---------------------------------------------------------------------- *)

pointerTypePenAsMouse(p) ==
  IF p \in {"touch", "2"} THEN "touch"
  ELSE IF p \in {"mouse", "4", "pen", "3"} THEN "mouse"
  ELSE Undefined

\* the pointerType table of setPointerListener; its keys are property
\* names, so the numbers 2, 3, 4 are the keys "2", "3", "4"
pointerType(p) ==
  IF p \in {"touch", "2", "pen", "3"} THEN "touch"
  ELSE IF p \in {"mouse", "4"} THEN "mouse"
  ELSE Undefined

\* Date.now() - touch.start < 500 && handler(e)
TapCallbackInclusive(touch, t) ==
  touch.start # NoTime /\ t - touch.start <= ClickWindow

TapCallback(touch, t) == ElapsedLess(t, touch.start, ClickWindow)

\* !touch.active && Date.now() - touch.end > 600 && handler(e)
QuietCallbackInclusive(touch, t) ==
  ~touch.active /\ touch.end # NoTime /\ t - touch.end >= GhostWindow

QuietCallbackIdle(touch, t) == ~touch.active

QuietCallback(touch, t) ==
  ~touch.active /\ ElapsedMore(t, touch.end, GhostWindow)

\* does the callback of listener l call its handler, for native event e
\* delivered at clock reading t, with the TouchStates as they are then
CallsHandler(l, ts, e, t) ==
  CASE l.kind = "handler"  -> TRUE
    [] l.kind = "tap"      -> TapCallback(ts[l.touch], t)
    [] l.kind = "quiet"    -> QuietCallback(ts[l.touch], t)
    [] l.kind = "ptrMouse" -> pointerType(e.pointerType) = "mouse"
    [] l.kind = "ptrTouch" -> pointerType(e.pointerType) = "touch"
    [] OTHER               -> FALSE

TracksNoStart(l, ts, t) ==
  CASE l.kind = "trackStart" ->
         [ts EXCEPT ![l.touch] = [@ EXCEPT !.active = TRUE]]
    [] l.kind = "trackEnd" ->
         [ts EXCEPT ![l.touch] = [@ EXCEPT !.end = t, !.active = FALSE]]
    [] OTHER -> ts

\* the TouchStates after the callback of listener l ran at t
Tracks(l, ts, t) ==
  CASE l.kind = "trackStart" ->
         [ts EXCEPT ![l.touch] = [@ EXCEPT !.start = t, !.active = TRUE]]
    [] l.kind = "trackEnd" ->
         [ts EXCEPT ![l.touch] = [@ EXCEPT !.end = t, !.active = FALSE]]
    [] OTHER -> ts

\* The host calls, in registration order, every listener of the target
\* whose type is the event's name.  Result: the TouchStates afterwards and
\* the listeners that called their handler.
RECURSIVE Dispatch(_, _, _, _, _, _)
Dispatch(ls, i, e, t, ts, f) ==
  IF i > Len(ls) THEN [ts |-> ts, fired |-> f]
  ELSE IF ls[i].type # e.name THEN Dispatch(ls, i + 1, e, t, ts, f)
  ELSE Dispatch(ls, i + 1, e, t, Tracks(ls[i], ts, t),
                IF CallsHandler(ls[i], ts, e, t) THEN f \cup {i} ELSE f)

(* ---------------------------------------------------------------------- *)
(* Inputs                                                                  *)
(* ---------------------------------------------------------------------- *)

Handlers == {1, 2, 3}

NoPointerOptions == [n \in {} |-> FALSE]

Mapping1 == <<[key |-> <<"click">>, handler |-> 1]>>
Mapping2 == <<[key |-> <<"mousedown", " ", "touchstart">>, handler |-> 1],
              [key |-> <<"touchstart", " ", "capture", " ", "passive">>, handler |-> 2],
              [key |-> <<"click">>, handler |-> 3]>>
Mapping3 == <<[key |-> <<"mousemove">>, handler |-> 1],
              [key |-> <<"touchmove", " ", "passive">>, handler |-> 2],
              [key |-> <<"mouseup", " ", "touchend">>, handler |-> 3]>>
Mapping4 == <<[key |-> <<"touchstart", " ", "setWithMouse">>, handler |-> 1],
              [key |-> <<"mousedown", " ", "setWithTouch">>, handler |-> 2],
              [key |-> <<"foo">>, handler |-> 3]>>
Mapping5 == <<[key |-> <<"mousedown">>, handler |-> 1],
              [key |-> <<"mousedown", " ", "capture">>, handler |-> 2],
              [key |-> <<"dblclick">>, handler |-> 3]>>

\* the (eventsAndHandlers, pointerOptions) arguments an addListener call is
\* made with
Requests ==
  {[eh |-> m, po |-> NoPointerOptions] :
      m \in {Mapping1, Mapping2, Mapping3, Mapping4, Mapping5}}
  \cup {[eh |-> Mapping3, po |-> o] :
      o \in {[n \in {"pointermove"} |-> FALSE],
             [n \in {"pointermove"} |-> TRUE],
             [n \in {"pointerup", "pointermove"} |-> FALSE],
             [n \in {"mousemove"} |-> FALSE]}}

\* mappings that registration alone is explored with: keys with doubled,
\* leading and trailing spaces, and keys with the setWith qualifiers
Mapping6 == <<[key |-> <<"click", " ", " ", "capture">>, handler |-> 1],
              [key |-> <<" ", "touchstart">>, handler |-> 2],
              [key |-> <<"mousedown", " ">>, handler |-> 3]>>
Mapping7 == <<[key |-> <<"touchstart", " ", "setWithMouse", " ", "setWithTouch">>,
               handler |-> 1],
              [key |-> <<"touchstart">>, handler |-> 2],
              [key |-> <<"touchstart", " ", "setWithMouse">>, handler |-> 3]>>
Mapping8 == <<[key |-> <<"mousedown", " ", "setWithTouch", " ", "setWithMouse">>,
               handler |-> 1],
              [key |-> <<"mousedown">>, handler |-> 2],
              [key |-> <<"click", " ", "setWithTouch", " ", "setWithHybrid", " ",
                         "passive">>, handler |-> 3]>>
Mapping9 == <<[key |-> <<"click", " ", "setWithTouch">>, handler |-> 1],
              [key |-> <<"foo", " ", "setWithHybrid">>, handler |-> 2],
              [key |-> <<"dblclick", " ", "setWithTouch", " ", "capture">>,
               handler |-> 3]>>
Mapping10 == <<[key |-> <<"foo", " ", "setWithMouse">>, handler |-> 1],
               [key |-> <<"touchend", " ", "setWithTouch">>, handler |-> 2],
               [key |-> <<"mouseup", " ", "setWithHybrid">>, handler |-> 3]>>
Mapping11 == <<[key |-> <<"click">>, handler |-> 1],
               [key |-> <<"click", " ", "capture">>, handler |-> 2],
               [key |-> <<"touchstart", " ", "click">>, handler |-> 3]>>

\* pointerOptions whose entries name no pointer event: a mouse and a touch
\* event name, an arbitrary string, and the string 'undefined'
OtherOptions ==
  {[n \in {"mousedown", "touchstart"} |-> FALSE],
   [n \in {"foo"} |-> FALSE],
   [n \in {"undefined"} |-> FALSE],
   [n \in {"undefined"} |-> TRUE]}

KeyRequests ==
  {[eh |-> m, po |-> NoPointerOptions] :
      m \in {Mapping6, Mapping7, Mapping8, Mapping9, Mapping10, Mapping11}}
  \cup {[eh |-> m, po |-> o] : m \in {Mapping2, Mapping4}, o \in OtherOptions}

\* native event names the host fires
MouseNames == {"mousedown", "mousemove", "click"}
PointerNames == {"pointerdown", "pointermove"}
OtherNames == {"foo"}
\* values of e.pointerType, as property keys
PointerTypeValues == {"touch", "pen", "mouse", "2", "3", "4", ""}

(* ---------------------------------------------------------------------- *)
(* Specification                                                           *)
(* ---------------------------------------------------------------------- *)

NoCall == [made |-> FALSE, eh |-> << >>, po |-> NoPointerOptions,
           setListener |-> "cantSetListeners", count |-> 0]
NoEvent == [name |-> "", pointerType |-> Undefined]
NoneSeen == [start |-> NoTime, end |-> NoTime]
NoTap == [phase |-> "none", start |-> NoTime, end |-> NoTime,
          calls |-> [h \in Handlers |-> 0]]

\* the state the program starts in on a device of D (profile and passive
\* support): no listener set yet; a finger may already be down
Start(D) ==
  /\ \E dev \in D : detectIt = dev.profile /\ hasPassive = dev.passive
  /\ listeners = << >>
  /\ touchStates = << >>
  /\ call = NoCall
  /\ now = 0
  /\ touches \in {0, 1}
  /\ last = NoEvent
  /\ fired = {}
  /\ seen = NoneSeen
  /\ tap = NoTap

AllDevices == [profile : Profiles, passive : BOOLEAN]

\* devices the event deliveries are explored on: the host has one of the
\* touch events and pointer events APIs, reports a touch unless mouse-only,
\* prefixes pointer event names only if it has pointer events, and supports
\* passive listeners unless it prefixes
Devices ==
  {dev \in AllDevices :
     LET d == dev.profile IN
     /\ d.hasTouch = (d.deviceType # "mouseOnly")
     /\ d.hasPointerEventsApi = ~d.hasTouchEventsApi
     /\ d.msPrefix => d.hasPointerEventsApi
     /\ dev.passive = ~d.msPrefix}

Init == Start(Devices)

\* the program calls addListener(target, eventsAndHandlers, pointerOptions)
AddListener(r) ==
  /\ ~call.made
  /\ LET st == addListener(r.eh, r.po, detectIt, hasPassive,
                           [ls |-> listeners, ts |-> touchStates])
     IN /\ listeners' = st.ls
        /\ touchStates' = st.ts
  /\ call' = [made |-> TRUE, eh |-> r.eh, po |-> r.po,
              setListener |-> getListenerType(detectIt), count |-> 1]
  /\ last' = NoEvent
  /\ fired' = {}
  /\ seen' = NoneSeen
  /\ tap' = NoTap
  /\ UNCHANGED <<detectIt, hasPassive, now, touches>>

AddListenerAgainReset(r) ==
  /\ call.made
  /\ call.count < MaxCalls
  /\ LET st == addListener(r.eh, r.po, detectIt, hasPassive,
                           [ls |-> << >>, ts |-> << >>])
     IN /\ listeners' = st.ls
        /\ touchStates' = st.ts
  /\ call' = [made |-> TRUE, eh |-> r.eh, po |-> r.po,
              setListener |-> getListenerType(detectIt), count |-> call.count + 1]
  /\ last' = NoEvent
  /\ fired' = {}
  /\ UNCHANGED <<detectIt, hasPassive, now, touches, seen, tap>>

\* the program calls addListener on the same target once more: the new
\* listeners and TouchStates come after the ones the target has; call is
\* the latest call
AddListenerAgain(r) ==
  /\ call.made
  /\ call.count < MaxCalls
  /\ LET st == addListener(r.eh, r.po, detectIt, hasPassive,
                           [ls |-> listeners, ts |-> touchStates])
     IN /\ listeners' = st.ls
        /\ touchStates' = st.ts
  /\ call' = [made |-> TRUE, eh |-> r.eh, po |-> r.po,
              setListener |-> getListenerType(detectIt), count |-> call.count + 1]
  /\ last' = NoEvent
  /\ fired' = {}
  /\ UNCHANGED <<detectIt, hasPassive, now, touches, seen, tap>>

\* handler calls made by the listeners in f, per handler
Calls(ls, f) == [h \in Handlers |-> Cardinality({i \in f : ls[i].handler = h})]

\* the tap observer: a gesture is touchstart (first finger), touchend,
\* then a native click within GhostWindow of the touchend, one after the
\* other; calls adds up the handler calls of those deliveries
TapAfter(e, t, f) ==
  LET c == Calls(listeners, f)
      sum == [h \in Handlers |-> tap.calls[h] + c[h]]
  IN IF e.name = "touchstart" /\ touches = 0
       THEN [phase |-> "down", start |-> t, end |-> NoTime, calls |-> c]
     ELSE IF e.name = "touchend" /\ tap.phase = "down"
       THEN [tap EXCEPT !.phase = "up", !.end = t, !.calls = sum]
     ELSE IF e.name = "click" /\ tap.phase = "up" /\ t - tap.end <= GhostWindow
       THEN [tap EXCEPT !.phase = "clicked", !.calls = sum]
     ELSE NoTap

\* the host delivers native event e to the target at clock reading t
Deliver(e, t) ==
  /\ call.made
  /\ t \in Instants
  /\ t >= now
  /\ LET d == Dispatch(listeners, 1, e, t, touchStates, {})
     IN /\ touchStates' = d.ts
        /\ fired' = d.fired
        /\ tap' = TapAfter(e, t, d.fired)
  /\ now' = t
  /\ last' = e
  /\ seen' = [start |-> IF e.name = "touchstart" THEN t ELSE seen.start,
              end |-> IF e.name \in {"touchend", "touchcancel"} THEN t ELSE seen.end]
  /\ UNCHANGED <<detectIt, hasPassive, listeners, call>>

FireTouchStart(t) ==
  /\ detectIt.hasTouchEventsApi
  /\ touches < MaxTouches
  /\ touches' = touches + 1
  /\ Deliver([name |-> "touchstart", pointerType |-> Undefined], t)

FireTouchEnd(name, t) ==
  /\ name \in {"touchend", "touchcancel"}
  /\ detectIt.hasTouchEventsApi
  /\ touches > 0
  /\ touches' = touches - 1
  /\ Deliver([name |-> name, pointerType |-> Undefined], t)

FireTouchMove(t) ==
  /\ detectIt.hasTouchEventsApi
  /\ touches > 0
  /\ touches' = touches
  /\ Deliver([name |-> "touchmove", pointerType |-> Undefined], t)

FireMouse(name, t) ==
  /\ name \in MouseNames \cup OtherNames
  /\ touches' = touches
  /\ Deliver([name |-> name, pointerType |-> Undefined], t)

FirePointer(name, p, t) ==
  /\ name \in PointerNames
  /\ p \in PointerTypeValues
  /\ detectIt.hasPointerEventsApi
  /\ touches' = touches
  /\ Deliver([name |-> pointerEventsPrefix(detectIt, name), pointerType |-> p], t)

Next ==
  \/ \E r \in Requests : AddListener(r)
  \/ \E t \in Instants : FireTouchStart(t)
  \/ \E n \in {"touchend", "touchcancel"}, t \in Instants : FireTouchEnd(n, t)
  \/ \E t \in Instants : FireTouchMove(t)
  \/ \E n \in MouseNames \cup OtherNames, t \in Instants : FireMouse(n, t)
  \/ \E n \in PointerNames, p \in PointerTypeValues, t \in Instants : FirePointer(n, p, t)

Spec == Init /\ [][Next]_vars

\* registration alone, on every capability profile
InitRegistration == Start(AllDevices)
NextRegistration == \E r \in Requests \cup KeyRequests : AddListener(r)
SpecRegistration == InitRegistration /\ [][NextRegistration]_vars

\* event deliveries with a later addListener call on the same target
LaterRequests == {[eh |-> m, po |-> NoPointerOptions] : m \in {Mapping1, Mapping2}}

\* the clock readings of its deliveries: at once, and after both windows
LaterInstants == {0, ClickWindow + GhostWindow + 1}

NextLater ==
  \/ \E r \in LaterRequests : AddListener(r)
  \/ \E r \in LaterRequests : AddListenerAgain(r)
  \/ \E t \in LaterInstants : FireTouchStart(t)
  \/ \E n \in {"touchend", "touchcancel"}, t \in LaterInstants : FireTouchEnd(n, t)
  \/ \E t \in LaterInstants : FireTouchMove(t)
  \/ \E n \in MouseNames \cup OtherNames, t \in LaterInstants : FireMouse(n, t)
  \/ \E n \in PointerNames, p \in {"touch", "mouse"}, t \in LaterInstants :
       FirePointer(n, p, t)

SpecLater == Init /\ [][NextLater]_vars

(* ---------------------------------------------------------------------- *)
(* Reading the registration back                                           *)
(* ---------------------------------------------------------------------- *)

Parsed(k) == parseKey(call.eh[k].key, hasPassive)

\* the (key, event) pairs of the mapping passed to addListener
Pairs ==
  {p \in (1..Len(call.eh)) \X (1..4) : p[2] <= Len(Parsed(p[1]).events)}

EventOf(p) == Parsed(p[1]).events[p[2]]
SetWithOf(p) == Parsed(p[1]).setWith

\* the listeners set for a pair that dispatch to its handler
HandlerListeners(p) ==
  {j \in 1..Len(listeners) :
     listeners[j].key = p[1] /\ listeners[j].pos = p[2] /\ listeners[j].handler # 0}

\* native event names under which a pointer listener is set
PrefixedNames ==
  {pointerEventsPrefix(detectIt, n) :
     n \in {"pointerdown", "pointerup", "pointermove", "pointercancel",
            "pointerenter", "pointerleave", "pointerover", "pointerout"}}

(* ---------------------------------------------------------------------- *)
(* C1                                                                      *)
(* ---------------------------------------------------------------------- *)

\* C1: for every capability profile the setter chosen by an addListener
\* call is the first match of the priority table: mouseOnly -> mouse;
\* touchOnly with the touch events API -> touch; hybrid with the touch
\* events API -> hybrid; touch capable with the pointer events API ->
\* pointer; otherwise the setter that sets nothing.
StrategySelection ==
  call.made =>
    LET d == detectIt
        s == call.setListener
        r1 == d.deviceType = "mouseOnly"
        r2 == d.deviceType = "touchOnly" /\ d.hasTouchEventsApi
        r3 == d.deviceType = "hybrid" /\ d.hasTouchEventsApi
        r4 == d.hasTouch /\ d.hasPointerEventsApi
    IN /\ (s = "setMouseListener") <=> r1
       /\ (s = "setTouchListener") <=> (~r1 /\ r2)
       /\ (s = "setHybridListener") <=> (~r1 /\ ~r2 /\ r3)
       /\ (s = "setPointerListener") <=> (~r1 /\ ~r2 /\ ~r3 /\ r4)
       /\ (s = "cantSetListeners") <=> (~r1 /\ ~r2 /\ ~r3 /\ ~r4)
       /\ (s = "cantSetListeners") => listeners = << >>
       /\ (s = "setHybridListener") <=> touchStates # << >> /\ listeners[1].key = 0

\* a hybrid device without the touch events API falls through to rule 4
StrategySelectionWitness ==
  /\ call.made
  /\ detectIt.deviceType = "hybrid"
  /\ detectIt.hasPointerEventsApi
  /\ call.setListener = "setPointerListener"
  /\ listeners # << >>

(* ---------------------------------------------------------------------- *)
(* C6                                                                      *)
(* ---------------------------------------------------------------------- *)

MouseOnlySelected == call.made /\ call.setListener = "setMouseListener"
TouchOnlySelected == call.made /\ call.setListener = "setTouchListener"
HybridSelected == call.made /\ call.setListener = "setHybridListener"
PointerSelected == call.made /\ call.setListener = "setPointerListener"

PointerLastResort ==
  call.made =>
    /\ call.setListener = "setPointerListener" =>
         detectIt.hasTouch /\ ~detectIt.hasTouchEventsApi
    /\ ~(detectIt.hasTouch /\ ~detectIt.hasTouchEventsApi) =>
         \A j \in 1..Len(listeners) : listeners[j].type \notin PrefixedNames

(* ---------------------------------------------------------------------- *)
(* C9                                                                      *)
(* ---------------------------------------------------------------------- *)

\* the entry of the event in the two tables (at most one has it)
TableEntry(event) ==
  IF IsMouseEvent(event) THEN mouseEventsMap[event]
  ELSE Lookup(touchEventsMap, event)

\* C9: with the pointer setter and pointerOptions whose false entries are
\* pointer event names, an event whose table entry is mapped to false gets
\* no listener at all, and every other event of the tables gets exactly one.
PointerOptionsSuppress ==
  (PointerSelected /\ ~IsFalse(call.po, Undefined)) =>
    \A p \in Pairs :
      LET q == TableEntry(EventOf(p)) IN
      q # Undefined =>
        /\ IsFalse(call.po, q) =>
             \A j \in 1..Len(listeners) :
               ~(listeners[j].key = p[1] /\ listeners[j].pos = p[2])
        /\ ~IsFalse(call.po, q) => Cardinality(HandlerListeners(p)) = 1

\* pointermove: false took away mousemove and touchmove, not mouseup / touchend
PointerOptionsWitness ==
  /\ PointerSelected
  /\ IsFalse(call.po, "pointermove")
  /\ \E p \in Pairs : EventOf(p) = "mousemove" /\ HandlerListeners(p) = {}
  /\ \E p \in Pairs : EventOf(p) = "touchmove" /\ HandlerListeners(p) = {}
  /\ \E p \in Pairs : EventOf(p) = "touchend" /\ HandlerListeners(p) # {}

(* ---------------------------------------------------------------------- *)
(* C2, C3                                                                  *)
(* ---------------------------------------------------------------------- *)

\* handler calls the latest delivery made for pair p
CallsFor(p) == Cardinality(HandlerListeners(p) \cap fired)

MouseDelivered == last.name \in DOMAIN mouseEventsMap

\* C2: with the hybrid setter, a native mouse event calls the handler of a
\* key naming that event (once) if and only if the TouchState is not active
\* and the host fired its last touchend / touchcancel more than 600 ms
\* before; 600 ms or less after it, or while active, the handler is not
\* called.
HybridGhostSuppression ==
  (HybridSelected /\ MouseDelivered) =>
    \A p \in Pairs :
      EventOf(p) = last.name =>
        CallsFor(p) = IF /\ ~touchStates[1].active
                         /\ seen.end # NoTime
                         /\ now - seen.end > GhostWindow
                        THEN 1 ELSE 0

\* mousedown 601 ms after the touchend called its handler
HybridGhostWitness ==
  /\ HybridSelected
  /\ last.name = "mousedown"
  /\ seen.end # NoTime
  /\ now - seen.end = GhostWindow + 1
  /\ \E p \in Pairs : EventOf(p) = "mousedown" /\ CallsFor(p) = 1

\* C3: with the hybrid setter, a native mouse event delivered while no
\* touch point is down and with no touchend / touchcancel in the 600 ms
\* before it (none at all included) calls the handler of every key naming
\* the event exactly once.
GenuineMousePasses ==
  (/\ HybridSelected
   /\ MouseDelivered
   /\ touches = 0
   /\ (seen.end = NoTime \/ now - seen.end > GhostWindow)) =>
    \A p \in Pairs : EventOf(p) = last.name => CallsFor(p) = 1

(* ---------------------------------------------------------------------- *)
(* C4, C5                                                                  *)
(* ---------------------------------------------------------------------- *)

\* C4: with the touch setter, a touchend calls the handler of a 'click' key
\* exactly once if it comes less than 500 ms after the last touchstart the
\* host fired, and not at all otherwise (500 ms or more, or no touchstart).
ClickOnTouchTiming ==
  (TouchOnlySelected /\ last.name = "touchend") =>
    \A p \in Pairs :
      (EventOf(p) = "click" /\ SetWithOf(p) \in {Undefined, "setWithTouch"}) =>
        CallsFor(p) = IF seen.start # NoTime /\ now - seen.start < ClickWindow
                        THEN 1 ELSE 0

\* touchend 499 ms after the touchstart called the click handler
ClickOnTouchWitness ==
  /\ TouchOnlySelected
  /\ last.name = "touchend"
  /\ seen.start # NoTime
  /\ now - seen.start = ClickWindow - 1
  /\ \E p \in Pairs : EventOf(p) = "click" /\ CallsFor(p) = 1

\* handler h is bound by one key only, and that key is just 'click'
ClickOnly(h) ==
  /\ \E p \in Pairs : call.eh[p[1]].handler = h
  /\ \A p \in Pairs :
       call.eh[p[1]].handler = h =>
         /\ Len(Parsed(p[1]).events) = 1
         /\ EventOf(p) = "click"
         /\ SetWithOf(p) = Undefined

\* C5: with the touch or the hybrid setter, over a tap (touchstart,
\* touchend, native click within 600 ms of the touchend) a click handler is
\* called once in all, by the touchend, when the touch lasted less than
\* 500 ms, and never when it lasted 500 ms or more.
OneClickPerTap ==
  ((TouchOnlySelected \/ HybridSelected) /\ tap.phase = "clicked") =>
    \A h \in Handlers :
      ClickOnly(h) =>
        /\ tap.calls[h] = IF tap.end - tap.start < ClickWindow THEN 1 ELSE 0
        /\ Calls(listeners, fired)[h] = 0

\* a short tap on a hybrid device, its click arriving 600 ms after the touchend
OneClickPerTapWitness ==
  /\ HybridSelected
  /\ tap.phase = "clicked"
  /\ now - tap.end = GhostWindow
  /\ \E h \in Handlers : ClickOnly(h) /\ tap.calls[h] = 1

(* ---------------------------------------------------------------------- *)
(* C8                                                                      *)
(* ---------------------------------------------------------------------- *)

PointerDelivered == last.pointerType # Undefined

\* C8: with the pointer setter, a pointer event calls the handler bound
\* through a known touch event name iff its pointerType is touch, pen, 2 or
\* 3, and the handler bound through a known mouse event name other than
\* click / dblclick iff its pointerType is mouse or 4.
PointerClassification ==
  (PointerSelected /\ PointerDelivered /\ ~IsFalse(call.po, Undefined)) =>
    \A p \in Pairs :
      LET e == EventOf(p)
          q == TableEntry(e)
      IN (/\ q \notin {Undefined, "click", "dblclick"}
          /\ ~IsFalse(call.po, q)
          /\ pointerEventsPrefix(detectIt, q) = last.name) =>
           CallsFor(p) =
             IF \/ IsTouchEvent(e) /\ last.pointerType \in {"touch", "pen", "2", "3"}
                \/ IsMouseEvent(e) /\ last.pointerType \in {"mouse", "4"}
               THEN 1 ELSE 0

\* a pen pointerdown called the touchstart handlers and not the mousedown one
PointerClassificationWitness ==
  /\ PointerSelected
  /\ last.pointerType = "pen"
  /\ \E p \in Pairs : EventOf(p) = "touchstart" /\ CallsFor(p) = 1
  /\ \E p \in Pairs : EventOf(p) = "mousedown" /\ HandlerListeners(p) # {}
                      /\ CallsFor(p) = 0

(* ---------------------------------------------------------------------- *)
(* C10                                                                     *)
(* ---------------------------------------------------------------------- *)

Shape(p) == {<<listeners[j].type, listeners[j].kind>> : j \in HandlerListeners(p)}

\* C10: when two keys of the mapping name the same event, each key gets its
\* own native listeners (same names, same callbacks, its own handler;
\* nothing is merged), and a firing that calls the handler of one calls the
\* handler of the other, each once.
Multiplicity ==
  call.made =>
    \A p1, p2 \in Pairs :
      (p1[1] # p2[1] /\ EventOf(p1) = EventOf(p2) /\ SetWithOf(p1) = SetWithOf(p2)) =>
        /\ Shape(p1) = Shape(p2)
        /\ Cardinality(HandlerListeners(p1)) = Cardinality(HandlerListeners(p2))
        /\ HandlerListeners(p1) \cap HandlerListeners(p2) = {}
        /\ \A j \in HandlerListeners(p1) :
             listeners[j].handler = call.eh[p1[1]].handler
        /\ CallsFor(p1) = CallsFor(p2)
        /\ \A j \in HandlerListeners(p1) :
             (listeners[j].kind = "handler" /\ listeners[j].type = last.name) =>
               CallsFor(p1) = 1

\* one touchstart called the handlers of both keys naming touchstart
MultiplicityWitness ==
  /\ call.made
  /\ last.name = "touchstart"
  /\ \E p1, p2 \in Pairs :
       /\ p1[1] # p2[1]
       /\ EventOf(p1) = "touchstart" /\ EventOf(p2) = "touchstart"
       /\ call.eh[p1[1]].handler # call.eh[p2[1]].handler
       /\ CallsFor(p1) = 1 /\ CallsFor(p2) = 1

(* ---------------------------------------------------------------------- *)
(* C11                                                                     *)
(* ---------------------------------------------------------------------- *)

\* the key, as written, has the word w
HasWord(key, w) == \E i \in 1..Len(key) : key[i] = w

KeyOf(k) == call.eh[k].key

\* C11: for every key and both values of passive support, the listener
\* options parsed from the key, and passed with each of its handler's
\* listeners, are the bare capture boolean (true iff the key has 'capture')
\* when the key has no 'passive' or the host lacks passive support, and the
\* object {capture, passive: true} otherwise.
ListenerOptionsFromKey ==
  call.made =>
    \A k \in 1..Len(call.eh) :
      LET capture == HasWord(KeyOf(k), "capture")
          expected ==
            IF HasWord(KeyOf(k), "passive") /\ hasPassive
              THEN [object |-> TRUE, capture |-> capture, passive |-> TRUE]
              ELSE [object |-> FALSE, capture |-> capture, passive |-> FALSE]
      IN /\ Parsed(k).listenerOptions = expected
         /\ \A j \in 1..Len(listeners) :
              (listeners[j].key = k /\ listeners[j].handler # 0) =>
                listeners[j].opts = expected

\* 'touchstart capture passive' set a touchstart listener with the bare
\* boolean true on a host without passive support
ListenerOptionsWitness ==
  /\ call.made
  /\ ~hasPassive
  /\ \E j \in 1..Len(listeners) :
       /\ listeners[j].type = "touchstart"
       /\ listeners[j].handler # 0
       /\ HasWord(KeyOf(listeners[j].key), "passive")
       /\ HasWord(KeyOf(listeners[j].key), "capture")
       /\ listeners[j].opts = [object |-> FALSE, capture |-> TRUE, passive |-> FALSE]

(* ---------------------------------------------------------------------- *)
(* C12                                                                     *)
(* ---------------------------------------------------------------------- *)

\* the whitespace separated tokens of the key, in order
Words(key) == SelectSeq(key, LAMBDA v : v # " ")

\* C12: the events parsed from a key are exactly its whitespace separated
\* tokens that are not passive, capture, setWithMouse, setWithTouch or
\* setWithHybrid; every other token is kept as an event name, and no event
\* name is produced that is not a token of the key (none by leading,
\* trailing or repeated whitespace).
PermissiveParsing ==
  call.made =>
    /\ \A k \in 1..Len(call.eh) :
         Parsed(k).events =
           SelectSeq(Words(KeyOf(k)),
                     LAMBDA v : v \notin {"passive", "capture", "setWithMouse",
                                          "setWithTouch", "setWithHybrid"})
    /\ \A j \in 1..Len(listeners) :
         listeners[j].handler # 0 => listeners[j].type # ""

(* ---------------------------------------------------------------------- *)
(* C13                                                                     *)
(* ---------------------------------------------------------------------- *)

NoneSelected == call.made /\ call.setListener = "cantSetListeners"

\* C13: when no rule of the selection matches, the addListener call sets no
\* native listener at all (no TouchState and none of its listeners either),
\* and no handler is called by any event delivered afterwards.
NoOpFallback ==
  NoneSelected =>
    /\ listeners = << >>
    /\ touchStates = << >>
    /\ fired = {}

\* a click delivered after a registration of 'click' that set nothing
NoOpFallbackWitness ==
  /\ NoneSelected
  /\ \E p \in Pairs : EventOf(p) = "click"
  /\ last.name = "click"
  /\ now > 0
  /\ fired = {}

(* ---------------------------------------------------------------------- *)
(* C14                                                                     *)
(* ---------------------------------------------------------------------- *)

\* C14: a TouchState follows the touch points of the target: a touchstart
\* writes start and makes it active; the touchend / touchcancel that leaves
\* no touch point down writes end and makes it inactive; a touchend /
\* touchcancel that leaves other touch points down changes neither end nor
\* active; nothing else writes to it.
TouchStateMultiTouch ==
  [][call.made =>
       \A i \in 1..Len(touchStates) :
         IF touches' = touches + 1
           THEN touchStates'[i] = [touchStates[i] EXCEPT !.start = now', !.active = TRUE]
         ELSE IF touches' = touches - 1 /\ touches' = 0
           THEN touchStates'[i] = [touchStates[i] EXCEPT !.end = now', !.active = FALSE]
         ELSE touchStates'[i] = touchStates[i]]_vars

(* ---------------------------------------------------------------------- *)
(* C15                                                                     *)
(* ---------------------------------------------------------------------- *)

\* the TouchState read by the listeners of pair p is in the active state
ActiveFor(p) ==
  \E j \in HandlerListeners(p) :
    listeners[j].touch # 0 /\ touchStates[listeners[j].touch].active

\* C15: with the touch setter on a touch-only device, a native click calls
\* the handler of a 'click' key exactly once when the TouchState is not
\* active and no touchend / touchcancel was recorded in the 600 ms before
\* it (none recorded at all included), and does not call it while the
\* TouchState is active or within 600 ms of the last touchend / touchcancel.
AssistiveClick ==
  (/\ TouchOnlySelected
   /\ detectIt.deviceType = "touchOnly"
   /\ last.name = "click") =>
    \A p \in Pairs :
      (EventOf(p) = "click" /\ SetWithOf(p) \in {Undefined, "setWithTouch"}) =>
        CallsFor(p) = IF /\ ~ActiveFor(p)
                         /\ (seen.end = NoTime \/ now - seen.end > GhostWindow)
                        THEN 1 ELSE 0

(* ---------------------------------------------------------------------- *)
(* C16                                                                     *)
(* ---------------------------------------------------------------------- *)

\* C16: the qualifier parsed from a key is one value at most: setWithHybrid
\* if the key has it, else setWithMouse if the key has it, else
\* setWithTouch if the key has it, and none when the key has no setWith
\* token.
QualifierPrecedence ==
  call.made =>
    \A k \in 1..Len(call.eh) :
      LET has(w) == HasWord(KeyOf(k), w) IN
      /\ Parsed(k).setWith \in {"setWithHybrid", "setWithMouse", "setWithTouch", Undefined}
      /\ has("setWithHybrid") => Parsed(k).setWith = "setWithHybrid"
      /\ (~has("setWithHybrid") /\ has("setWithMouse")) =>
           Parsed(k).setWith = "setWithMouse"
      /\ (~has("setWithHybrid") /\ ~has("setWithMouse") /\ has("setWithTouch")) =>
           Parsed(k).setWith = "setWithTouch"
      /\ (~has("setWithHybrid") /\ ~has("setWithMouse") /\ ~has("setWithTouch")) =>
           Parsed(k).setWith = Undefined

\* the mouse setter took 'mousedown setWithTouch setWithMouse' as
\* setWithMouse and set its listener, and took 'click setWithTouch
\* setWithHybrid passive' as setWithHybrid and set none
QualifierPrecedenceWitness ==
  /\ MouseOnlySelected
  /\ \E p \in Pairs :
       /\ HasWord(KeyOf(p[1]), "setWithTouch") /\ HasWord(KeyOf(p[1]), "setWithMouse")
       /\ SetWithOf(p) = "setWithMouse"
       /\ HandlerListeners(p) # {}
  /\ \E p \in Pairs :
       /\ HasWord(KeyOf(p[1]), "setWithTouch") /\ HasWord(KeyOf(p[1]), "setWithHybrid")
       /\ SetWithOf(p) = "setWithHybrid"
       /\ HandlerListeners(p) = {}

(* ---------------------------------------------------------------------- *)
(* C17                                                                     *)
(* ---------------------------------------------------------------------- *)

\* key k has both setWithMouse and setWithTouch
MalformedPair(k) ==
  HasWord(KeyOf(k), "setWithMouse") /\ HasWord(KeyOf(k), "setWithTouch")

\* key k2 is key k1 with the tokens of ws removed
Without(k1, k2, ws) ==
  Words(KeyOf(k2)) = SelectSeq(Words(KeyOf(k1)), LAMBDA v : v \notin ws)

\* with the mouse or the touch setter, a key with both setWithMouse and
\* setWithTouch gets the listeners of the same key without the tokens of ws
MalformedPairAs(ws) ==
  (MouseOnlySelected \/ TouchOnlySelected) =>
    \A p1, p2 \in Pairs :
      (MalformedPair(p1[1]) /\ Without(p1[1], p2[1], ws) /\ p1[2] = p2[2]) =>
        /\ Shape(p1) = Shape(p2)
        /\ Cardinality(HandlerListeners(p1)) = Cardinality(HandlerListeners(p2))

\* C17 as stated: a key with both setWithMouse and setWithTouch is treated
\* as a key with no qualifier; with the mouse setter and with the touch
\* setter it gets the listeners of the same key with both tokens removed.
MalformedPairUnqualified == MalformedPairAs({"setWithMouse", "setWithTouch"})

\* C17 amended: a key with both setWithMouse and setWithTouch is treated as
\* a key qualified setWithMouse; with the mouse setter and with the touch
\* setter it gets the listeners of the same key with setWithTouch removed.
MalformedPairAsMouse == MalformedPairAs({"setWithTouch"})

\* the mouse setter set a touchstart listener for 'touchstart setWithMouse
\* setWithTouch' as for 'touchstart setWithMouse', and none for 'touchstart'
MalformedPairWitness ==
  /\ MouseOnlySelected
  /\ \E p1, p2, p3 \in Pairs :
       /\ MalformedPair(p1[1])
       /\ Without(p1[1], p2[1], {"setWithTouch"})
       /\ Without(p1[1], p3[1], {"setWithMouse", "setWithTouch"})
       /\ EventOf(p1) = "touchstart"
       /\ Shape(p1) = {<<"touchstart", "handler">>}
       /\ Shape(p2) = Shape(p1)
       /\ Shape(p3) = {}

(* ---------------------------------------------------------------------- *)
(* C18                                                                     *)
(* ---------------------------------------------------------------------- *)

\* the setter a qualifier names
NamedSetter(setWith) ==
  CASE setWith = "setWithMouse"  -> "setMouseListener"
    [] setWith = "setWithTouch"  -> "setTouchListener"
    [] setWith = "setWithHybrid" -> "setHybridListener"
    [] OTHER                     -> Undefined

\* C18: listeners are set for a qualified key only when the chosen setter
\* is the one its qualifier names; with any other setter (the hybrid setter
\* for setWithMouse / setWithTouch and the pointer setter for any qualifier
\* included) the key gets no listener.
QualifierRestricts ==
  call.made =>
    \A p \in Pairs :
      (SetWithOf(p) # Undefined /\ call.setListener # NamedSetter(SetWithOf(p))) =>
        HandlerListeners(p) = {}

(* ---------------------------------------------------------------------- *)
(* C19                                                                     *)
(* ---------------------------------------------------------------------- *)

\* every listener set for pair p, the TouchState's included
ListenersOf(p) ==
  {j \in 1..Len(listeners) : listeners[j].key = p[1] /\ listeners[j].pos = p[2]}

\* C19: with the mouse setter, an event of a key gets exactly one listener,
\* under its own name and calling the handler unguarded, when the key's
\* qualifier is none or setWithMouse and the event is a known mouse event,
\* or is not a known touch event, or the qualifier is setWithMouse; in every
\* other case it gets no listener.
MouseOnlyAttachment ==
  MouseOnlySelected =>
    /\ touchStates = << >>
    /\ \A p \in Pairs :
         LET e == EventOf(p)
             q == SetWithOf(p)
         IN IF /\ q \in {Undefined, "setWithMouse"}
               /\ (IsMouseEvent(e) \/ ~IsTouchEvent(e) \/ q = "setWithMouse")
              THEN /\ Cardinality(ListenersOf(p)) = 1
                   /\ Shape(p) = {<<e, "handler">>}
              ELSE ListenersOf(p) = {}

\* the mouse setter set 'touchstart setWithMouse' and 'foo' and did not set
\* 'mousedown setWithTouch'
MouseOnlyAttachmentWitness ==
  /\ MouseOnlySelected
  /\ \E p \in Pairs : /\ EventOf(p) = "touchstart" /\ SetWithOf(p) = "setWithMouse"
                      /\ Shape(p) = {<<"touchstart", "handler">>}
  /\ \E p \in Pairs : /\ EventOf(p) = "foo" /\ SetWithOf(p) = Undefined
                      /\ Shape(p) = {<<"foo", "handler">>}
  /\ \E p \in Pairs : /\ EventOf(p) = "mousedown" /\ SetWithOf(p) = "setWithTouch"
                      /\ ListenersOf(p) = {}

(* ---------------------------------------------------------------------- *)
(* C20                                                                     *)
(* ---------------------------------------------------------------------- *)

\* C20: with the touch setter and a qualifier of none or setWithTouch, a
\* known touch event gets exactly one unguarded listener under its name;
\* 'click' gets the guarded touchend listener, and the guarded native click
\* listener too iff deviceType is touchOnly, and never an unguarded click
\* listener; any other event gets one unguarded listener iff it is not a
\* known mouse event or the qualifier is setWithTouch.  With setWithMouse
\* or setWithHybrid nothing is set.
TouchOnlyAttachment ==
  TouchOnlySelected =>
    \A p \in Pairs :
      LET e == EventOf(p)
          q == SetWithOf(p)
          one == /\ Cardinality(ListenersOf(p)) = 1
                 /\ Shape(p) = {<<e, "handler">>}
      IN IF q \notin {Undefined, "setWithTouch"} THEN ListenersOf(p) = {}
         ELSE IF IsTouchEvent(e) THEN one
         ELSE IF e = "click"
           THEN /\ Shape(p) =
                     IF detectIt.deviceType = "touchOnly"
                       THEN {<<"touchend", "tap">>, <<"click", "quiet">>}
                       ELSE {<<"touchend", "tap">>}
                /\ Cardinality(HandlerListeners(p)) = Cardinality(Shape(p))
         ELSE IF ~IsMouseEvent(e) \/ q = "setWithTouch" THEN one
         ELSE ListenersOf(p) = {}

\* the touch setter set the two guarded listeners for 'click setWithTouch',
\* an unguarded one for 'dblclick setWithTouch capture' and none for
\* 'foo setWithHybrid'
TouchOnlyAttachmentWitness ==
  /\ TouchOnlySelected
  /\ \E p \in Pairs : /\ EventOf(p) = "click" /\ SetWithOf(p) = "setWithTouch"
                      /\ Shape(p) = {<<"touchend", "tap">>, <<"click", "quiet">>}
  /\ \E p \in Pairs : /\ EventOf(p) = "dblclick" /\ SetWithOf(p) = "setWithTouch"
                      /\ Shape(p) = {<<"dblclick", "handler">>}
  /\ \E p \in Pairs : /\ EventOf(p) = "foo" /\ SetWithOf(p) = "setWithHybrid"
                      /\ ListenersOf(p) = {}

(* ---------------------------------------------------------------------- *)
(* C21                                                                     *)
(* ---------------------------------------------------------------------- *)

\* the TouchStates read by the listeners of pair p
TouchStatesOf(p) == {listeners[j].touch : j \in HandlerListeners(p)} \ {0}

\* C21: with the hybrid setter, an event gets the listeners the touch
\* setter sets for it when given the call's one TouchState (a known touch
\* event: one unguarded listener; 'click': the guarded touchend listener;
\* an event of neither table: one unguarded listener; no new TouchState),
\* and, iff it is a known mouse event, one more listener under its own name
\* guarded by that TouchState.
HybridAttachment ==
  HybridSelected =>
    /\ Len(touchStates) = 1
    /\ \A p \in Pairs :
         LET e == EventOf(p)
             touchPart == IF IsTouchEvent(e) THEN {<<e, "handler">>}
                          ELSE IF e = "click" THEN {<<"touchend", "tap">>}
                          ELSE IF ~IsMouseEvent(e) THEN {<<e, "handler">>}
                          ELSE {}
             mousePart == IF IsMouseEvent(e) THEN {<<e, "quiet">>} ELSE {}
         IN /\ Shape(p) = touchPart \cup mousePart
            /\ Cardinality(ListenersOf(p)) = Cardinality(touchPart \cup mousePart)
            /\ TouchStatesOf(p) \subseteq {1}
            /\ \A j \in HandlerListeners(p) :
                 listeners[j].kind \in {"tap", "quiet"} => listeners[j].touch = 1

\* the hybrid setter set touchstart unguarded, mousedown guarded only, and
\* for click the guarded touchend and the guarded click, all on TouchState 1
HybridAttachmentWitness ==
  /\ HybridSelected
  /\ \E p \in Pairs : EventOf(p) = "touchstart"
                      /\ Shape(p) = {<<"touchstart", "handler">>}
  /\ \E p \in Pairs : EventOf(p) = "mousedown"
                      /\ Shape(p) = {<<"mousedown", "quiet">>}
  /\ \E p \in Pairs : EventOf(p) = "click"
                      /\ Shape(p) = {<<"touchend", "tap">>, <<"click", "quiet">>}
                      /\ TouchStatesOf(p) = {1}

(* ---------------------------------------------------------------------- *)
(* C22                                                                     *)
(* ---------------------------------------------------------------------- *)

\* C22: with the pointer setter, an event that pointerOptions does not
\* suppress gets exactly one listener: click and dblclick under their own
\* name, calling the handler unfiltered; any other known mouse event under
\* the prefixed name of its pointer event, calling the handler for pointer
\* type mouse only; a known touch event under the prefixed name of its
\* pointer event, calling the handler for pointer type touch only; an
\* event of neither table under the prefixed form of its own name,
\* unfiltered.
PointerAttachment ==
  PointerSelected =>
    /\ touchStates = << >>
    /\ \A p \in Pairs :
         LET e == EventOf(p) IN
         ~Suppressed(call.po, e) =>
           /\ Cardinality(ListenersOf(p)) = 1
           /\ Shape(p) =
                IF e \in {"click", "dblclick"} THEN {<<e, "handler">>}
                ELSE IF IsMouseEvent(e)
                  THEN {<<pointerEventsPrefix(detectIt, mouseEventsMap[e]), "ptrMouse">>}
                ELSE IF IsTouchEvent(e)
                  THEN {<<pointerEventsPrefix(detectIt, touchEventsMap[e]), "ptrTouch">>}
                ELSE {<<pointerEventsPrefix(detectIt, e), "handler">>}

\* on a host with MS-prefixed pointer events the pointer setter set
\* MSPointerDown filtered to mouse for mousedown, MSPointerDown filtered to
\* touch for touchstart, and click under its own name
PointerAttachmentWitness ==
  /\ PointerSelected
  /\ detectIt.msPrefix
  /\ \E p \in Pairs : EventOf(p) = "mousedown"
                      /\ Shape(p) = {<<"MSPointerDown", "ptrMouse">>}
  /\ \E p \in Pairs : EventOf(p) = "touchstart"
                      /\ Shape(p) = {<<"MSPointerDown", "ptrTouch">>}
  /\ \E p \in Pairs : EventOf(p) = "click"
                      /\ Shape(p) = {<<"click", "handler">>}

(* ---------------------------------------------------------------------- *)
(* C23                                                                     *)
(* ---------------------------------------------------------------------- *)

\* the listeners of the TouchStates
Trackers == {j \in 1..Len(listeners) : listeners[j].handler = 0}

\* the 'click' events the touch setter sets listeners for
ClickPairs ==
  {p \in Pairs : EventOf(p) = "click" /\ SetWithOf(p) \in {Undefined, "setWithTouch"}}

\* TouchState i has its three listeners
ThreeTrackers(i) ==
  {<<listeners[j].type, listeners[j].kind>> : j \in {t \in Trackers : listeners[t].touch = i}}
    = {<<"touchstart", "trackStart">>, <<"touchend", "trackEnd">>,
       <<"touchcancel", "trackEnd">>}

\* C23: an addListener call with the hybrid setter creates exactly one
\* TouchState (three listeners), whatever the keys and events, and every
\* guarded listener of the call reads that one; with the mouse setter, the
\* pointer setter and the setter that sets nothing no TouchState is
\* created; with the touch setter one TouchState is created for each
\* 'click' event set and none for other events.
TouchStateLifecycle ==
  call.made =>
    /\ Cardinality(Trackers) = 3 * Len(touchStates)
    /\ \A i \in 1..Len(touchStates) : ThreeTrackers(i)
    /\ HybridSelected =>
         /\ Len(touchStates) = 1
         /\ \A j \in 1..Len(listeners) :
              listeners[j].kind \in {"tap", "quiet"} => listeners[j].touch = 1
    /\ (MouseOnlySelected \/ PointerSelected \/ NoneSelected) =>
         touchStates = << >>
    /\ TouchOnlySelected =>
         /\ Len(touchStates) = Cardinality(ClickPairs)
         /\ \A p \in Pairs :
              Cardinality(TouchStatesOf(p)) = IF p \in ClickPairs THEN 1 ELSE 0
         /\ \A p1, p2 \in ClickPairs :
              p1 # p2 => TouchStatesOf(p1) \cap TouchStatesOf(p2) = {}

\* the touch setter created three TouchStates for three 'click' events
TouchStateLifecycleWitness ==
  /\ TouchOnlySelected
  /\ Cardinality(ClickPairs) = 3
  /\ Len(touchStates) = 3
  /\ Cardinality(Trackers) = 9

(* ---------------------------------------------------------------------- *)
(* C24                                                                     *)
(* ---------------------------------------------------------------------- *)

\* pointerOptions without the entries whose key is not in names
Restrict(pointerOptions, names) ==
  [n \in (DOMAIN pointerOptions) \cap names |-> pointerOptions[n]]

\* names and callbacks of the listeners that addListener sets for pair p
\* when called with pointerOptions po
ShapeWith(po, p) ==
  LET ls == addListener(call.eh, po, detectIt, hasPassive,
                        [ls |-> << >>, ts |-> << >>]).ls
  IN {<<ls[j].type, ls[j].kind>> :
        j \in {i \in 1..Len(ls) : ls[i].key = p[1] /\ ls[i].pos = p[2]
                                    /\ ls[i].handler # 0}}

\* the pointer event of the event in the tables, if it has one
OwnPointerEvent(event) == {TableEntry(event)} \ {Undefined}

\* C24: with the pointer setter, the entries of pointerOptions whose key is
\* not the pointer event of the event being set (a mouse or touch event
\* name, an arbitrary string, the string 'undefined') have no effect: the
\* event gets the listeners it gets with those entries removed; with every
\* other setter pointerOptions has no effect at all.
PointerOptionsInert ==
  call.made =>
    \A p \in Pairs :
      Shape(p) = ShapeWith(IF PointerSelected
                             THEN Restrict(call.po, OwnPointerEvent(EventOf(p)))
                             ELSE NoPointerOptions, p)

(* ---------------------------------------------------------------------- *)
(* C25                                                                     *)
(* ---------------------------------------------------------------------- *)

\* C25: the start, end and active of a TouchState change only when the
\* host delivers a touchstart, touchend or touchcancel (to the TouchState's
\* own listeners); the delivery of a mouse, click, pointer or other event,
\* whatever listeners it calls, and a later addListener call leave every
\* existing TouchState as it is.
TouchStateFrame ==
  [][call.made =>
       /\ Len(touchStates') >= Len(touchStates)
       /\ \A i \in 1..Len(touchStates) :
            touchStates'[i] # touchStates[i] =>
              /\ call' = call
              /\ last'.name \in {"touchstart", "touchend", "touchcancel"}
              /\ touches' # touches
              /\ \E j \in 1..Len(listeners) :
                   /\ listeners[j].touch = i
                   /\ listeners[j].kind \in {"trackStart", "trackEnd"}
                   /\ listeners[j].type = last'.name]_vars

\* a second addListener call added a TouchState next to one that had
\* recorded a touch
TouchStateFrameWitness ==
  /\ call.count = 2
  /\ Len(touchStates) >= 2
  /\ touchStates[1].end # NoTime
  /\ touchStates[Len(touchStates)].start = NoTime

(* ---------------------------------------------------------------------- *)
(* C26                                                                     *)
(* ---------------------------------------------------------------------- *)

\* C26: whatever the setter, the listeners that one setListener call (one
\* event of one key) sets for the handler are under pairwise different
\* native event names, so the delivery of one native event calls the
\* handler for that event of that key at most once.
NoDoubleDispatch ==
  call.made =>
    \A p \in Pairs :
      /\ \A j1, j2 \in HandlerListeners(p) :
           j1 # j2 => listeners[j1].type # listeners[j2].type
      /\ CallsFor(p) <= 1

\* a touchend called the handler of a 'click' key once, through the first
\* of the two listeners set for it
NoDoubleDispatchWitness ==
  /\ TouchOnlySelected
  /\ last.name = "touchend"
  /\ \E p \in Pairs :
       /\ EventOf(p) = "click"
       /\ Cardinality(HandlerListeners(p)) = 2
       /\ CallsFor(p) = 1

(* ---------------------------------------------------------------------- *)
(* C27                                                                     *)
(* ---------------------------------------------------------------------- *)

\* the host ordering: no touchend / touchcancel was fired on the target
\* without a touchstart before it since the TouchStates exist
HostOrdering == seen.end # NoTime => seen.start # NoTime

TimingSane ==
  \A i \in 1..Len(touchStates) :
    LET ts == touchStates[i] IN
    /\ ts.active => ts.start # NoTime
    /\ ts.end # NoTime => ts.start # NoTime
    /\ (~ts.active /\ ts.end # NoTime) => ts.end >= ts.start

\* C27: with a clock that does not go back and a host that fires every
\* touchend / touchcancel after a touchstart the TouchState saw, always:
\* active implies start is defined, end defined implies start defined, not
\* active with end defined implies end >= start; and start and end never
\* decrease.
TouchStateTiming ==
  [][HostOrdering' =>
       /\ TimingSane'
       /\ \A i \in 1..Len(touchStates) :
            /\ touchStates'[i].start >= touchStates[i].start
            /\ touchStates'[i].end >= touchStates[i].end]_vars

\* a second touch went down 1101 ms after the first one was lifted
TouchStateTimingWitness ==
  /\ HostOrdering
  /\ touchStates # << >>
  /\ touchStates[1].active
  /\ touchStates[1].end # NoTime
  /\ touchStates[1].start > touchStates[1].end

====
